---- MODULE Spec2Model ----
(***************************************************************************)
(* A model of zip_codes.py: ZIP-Code normalisation, the Census-year        *)
(* selection of ZipCodes.__init__, and the three lookups                   *)
(* zip_code_crosswalk, reverse_zcta_crosswalk and lat_lon_centroid over    *)
(* the JSON tables read from disk.                                         *)
(*                                                                         *)
(* Python values are records [t |-> type name, v |-> payload]:             *)
(*   NoneType  v = << >>                                                   *)
(*   str       v = the sequence of its characters                          *)
(*   int       v = << n >>                                                 *)
(*   float     v = << "nan" >>   (only NaN is modelled)                    *)
(*   list      v = the sequence of its items (Python values)               *)
(* A dict is the sequence of its (key, value) items in insertion order,    *)
(* each item a record [k |-> key, val |-> value].                          *)
(***************************************************************************)
EXTENDS Integers, Sequences, FiniteSets, TLC

VARIABLES
    files,           \* the json directory: year string -> [crosswalk, latlon]
    crosswalkReads,  \* year string -> number of times zipzcta_crosswalk_<year>.json was opened
    latlonReads,     \* year string -> number of times zcta_latloncentroid_<year>.json was opened
    call,            \* the last call made: [op, arg, year, flag, again, prev]
    result,          \* what that call returned
    calls,           \* number of calls made so far in this process
    budget           \* number of lookups this process makes in all

vars == <<files, crosswalkReads, latlonReads, call, result, calls, budget>>

----------------------------------------------------------------------------
(* Bounds of the model *)

\* longest string enumerated exhaustively as a raw formatter input
MaxLen == 6
\* integer years are enumerated from 2015 - YearSpan to 2015 + YearSpan
YearSpan == 15
\* most lookups made in one process
MaxCalls == 2

----------------------------------------------------------------------------
(* Python values *)

None == [t |-> "NoneType", v |-> << >>]
PyStr(s) == [t |-> "str", v |-> s]
PyInt(n) == [t |-> "int", v |-> <<n>>]
PyNaN == [t |-> "float", v |-> <<"nan">>]
PyList(items) == [t |-> "list", v |-> items]

DigitChars == <<"0", "1", "2", "3", "4", "5", "6", "7", "8", "9">>
UpperChars == <<"A", "B", "C", "D", "E", "F", "G", "H", "I", "J", "K", "L", "M",
                "N", "O", "P", "Q", "R", "S", "T", "U", "V", "W", "X", "Y", "Z">>
LowerChars == <<"a", "b", "c", "d", "e", "f", "g", "h", "i", "j", "k", "l", "m",
                "n", "o", "p", "q", "r", "s", "t", "u", "v", "w", "x", "y", "z">>

IsDigit(c) == \E i \in 1..10 : DigitChars[i] = c

\* the decimal digits of a natural number, as str() writes them
RECURSIVE NatDigits(_)
NatDigits(n) ==
    IF n < 10 THEN <<DigitChars[n + 1]>>
    ELSE NatDigits(n \div 10) \o <<DigitChars[(n % 10) + 1]>>

\* str(x)
Str(x) ==
    CASE x.t = "NoneType" -> <<"N", "o", "n", "e">>
      [] x.t = "str" -> x.v
      [] x.t = "int" -> IF x.v[1] < 0 THEN <<"-">> \o NatDigits(0 - x.v[1])
                        ELSE NatDigits(x.v[1])
      [] x.t = "float" -> <<"n", "a", "n">>

\* str.lower(), one character
LowerChar(c) ==
    IF \E i \in 1..26 : UpperChars[i] = c
    THEN LowerChars[CHOOSE i \in 1..26 : UpperChars[i] = c]
    ELSE c

\* str.lower()
Lower(s) == [i \in 1..Len(s) |-> LowerChar(s[i])]

\* s.replace(c, "")
RECURSIVE Remove(_, _)
Remove(s, c) ==
    IF s = << >> THEN << >>
    ELSE IF Head(s) = c THEN Remove(Tail(s), c)
    ELSE <<Head(s)>> \o Remove(Tail(s), c)

\* c in s
Contains(s, c) == \E i \in 1..Len(s) : s[i] = c

----------------------------------------------------------------------------
(* zip_code_formatter *)

null_list == { <<"0">>, <<"n", "a", "n">>, <<"n", "u", "l", "l">>, <<"n", "o", "n", "e">>,
               <<"0", "n", "o", "n", "e">>, <<"0", "0", "n", "a", "n">> }

\* postal_code[:5] when longer than 5
Truncate(s) == IF Len(s) > 5 THEN SubSeq(s, 1, 5) ELSE s

\* hyphens and spaces are removed only when a hyphen is present
StripSeparators(s) == IF Contains(s, "-") THEN Remove(Remove(s, "-"), " ") ELSE s

\* Pad without its second test: four characters are left alone
PadNoFourCase(s) == IF Len(s) = 3 THEN <<"0", "0">> \o s ELSE s

\* Pad adding a single zero in either case
PadOneZero(s) == IF Len(s) = 3 \/ Len(s) = 4 THEN <<"0">> \o s ELSE s

\* the two padding tests, in order
Pad(s) ==
    LET p == IF Len(s) = 3 THEN <<"0", "0">> \o s ELSE s
    IN  IF Len(p) = 4 THEN <<"0">> \o p ELSE p

\* (not postal_code) or (postal_code.lower() in null_list)
IsNull(s) == s = << >> \/ Lower(s) \in null_list

zip_code_formatter(postal_code) ==
    LET s == Pad(StripSeparators(Truncate(Str(postal_code))))
    IN  IF IsNull(s) THEN None ELSE PyStr(s)

----------------------------------------------------------------------------
(* dicts: sequences of items [k |-> key, val |-> value] in insertion order *)

\* key in d
DictHas(d, key) == \E i \in 1..Len(d) : d[i].k = key

\* d[key]
DictGet(d, key) == d[CHOOSE i \in 1..Len(d) : d[i].k = key].val

\* reverse_dictionary[v].append(key) on a defaultdict(list)
Append1(rd, v, key) ==
    IF DictHas(rd, v)
    THEN [i \in 1..Len(rd) |->
            IF rd[i].k = v
            THEN [k |-> v, val |-> PyList(Append(rd[i].val.v, key))]
            ELSE rd[i]]
    ELSE Append(rd, [k |-> v, val |-> PyList(<<key>>)])

\* for v in value: reverse_dictionary[v].append(key)
RECURSIVE AppendEach(_, _, _)
AppendEach(rd, values, key) ==
    IF values = << >> THEN rd
    ELSE AppendEach(Append1(rd, Head(values), key), Tail(values), key)

\* the loop of reverse_dict over dictionary.items(), from item i on
RECURSIVE ReverseLoop(_, _, _)
ReverseLoop(dictionary, i, rd) ==
    IF i > Len(dictionary) THEN rd
    ELSE LET key == dictionary[i].k
             value == dictionary[i].val
         IN  ReverseLoop(dictionary, i + 1,
                         IF value.t = "list" THEN AppendEach(rd, value.v, key)
                         ELSE Append1(rd, value, key))

\* {k: v[0] if v else None for k, v in reverse_dictionary.items()}
Collapse(rd) ==
    [i \in 1..Len(rd) |->
        [k |-> rd[i].k,
         val |-> IF rd[i].val.v # << >> THEN rd[i].val.v[1] ELSE None]]

reverse_dict(dictionary) ==
    LET rd == ReverseLoop(dictionary, 1, << >>)
    IN  IF \A i \in 1..Len(rd) : Len(rd[i].val.v) <= 1 THEN Collapse(rd) ELSE rd

----------------------------------------------------------------------------
(* ZipCodes.__init__ *)

RECURSIVE StripLeft(_)
StripLeft(s) == IF s # << >> /\ Head(s) = " " THEN StripLeft(Tail(s)) ELSE s

RECURSIVE StripRight(_)
StripRight(s) ==
    IF s # << >> /\ s[Len(s)] = " " THEN StripRight(SubSeq(s, 1, Len(s) - 1)) ELSE s

\* the text int() parses: surrounding blanks dropped
IntText(s) == StripRight(StripLeft(s))

\* the digits of that text, after an optional sign
IntDigits(s) ==
    LET u == IntText(s)
    IN  IF u # << >> /\ (Head(u) = "-" \/ Head(u) = "+") THEN Tail(u) ELSE u

RECURSIVE DigitsValue(_)
DigitsValue(ds) ==
    IF ds = << >> THEN 0
    ELSE DigitsValue(SubSeq(ds, 1, Len(ds) - 1)) * 10
         + ((CHOOSE i \in 1..10 : DigitChars[i] = ds[Len(ds)]) - 1)

\* whether int(year) returns rather than raises
IntOk(year) ==
    CASE year.t = "int" -> TRUE
      [] year.t = "str" -> /\ IntDigits(year.v) # << >>
                           /\ \A i \in 1..Len(IntDigits(year.v)) : IsDigit(IntDigits(year.v)[i])
      [] OTHER -> FALSE

\* int(year), where it returns
IntValue(year) ==
    IF year.t = "int" THEN year.v[1]
    ELSE IF Head(IntText(year.v)) = "-" THEN 0 - DigitsValue(IntDigits(year.v))
    ELSE DigitsValue(IntDigits(year.v))

\* CensusYear sending only the years before 2010 to the 2010 tables
CensusYearBefore2010(year) ==
    LET y == IF IntOk(year) THEN IntValue(year) ELSE 2020
    IN  IF y = 2010 THEN "2010"
        ELSE IF y = 2020 THEN "2020"
        ELSE IF y < 2010 THEN "2010"
        ELSE "2020"

\* self.year: the Census year the instance works on, as a string
CensusYear(year) ==
    LET y == IF IntOk(year) THEN IntValue(year) ELSE 2020
    IN  IF y = 2010 THEN "2010"
        ELSE IF y = 2020 THEN "2020"
        ELSE IF y < 2020 THEN "2010"
        ELSE "2020"

\* the instance ZipCodes(year) built from the json directory fs
ZipCodes(fs, year) ==
    LET y == CensusYear(year)
    IN  [year |-> y,
         crosswalk |-> fs[y].crosswalk,
         reverse_crosswalk |-> reverse_dict(fs[y].crosswalk),
         latlon_centroids |-> fs[y].latlon]

----------------------------------------------------------------------------
(* The lookups. Each returns [ret |-> the value returned,                  *)
(* built |-> the number of ZipCodes instances it constructed], every       *)
(* construction opening both json files of its Census year once.           *)

\* zip_code_crosswalk returning the input on every miss
zip_code_crosswalk_input_on_miss(fs, postal_code, year, use_postalcode_if_error) ==
    LET zipcrosswalk == ZipCodes(fs, year).crosswalk
        code == zip_code_formatter(postal_code)
    IN  [ret |-> IF DictHas(zipcrosswalk, code) THEN DictGet(zipcrosswalk, code) ELSE code,
         built |-> 1]

zip_code_crosswalk(fs, postal_code, year, use_postalcode_if_error) ==
    LET zipcrosswalk == ZipCodes(fs, year).crosswalk
        code == zip_code_formatter(postal_code)
    IN  [ret |-> IF DictHas(zipcrosswalk, code) THEN DictGet(zipcrosswalk, code)
                 ELSE IF use_postalcode_if_error THEN code
                 ELSE None,
         built |-> 1]

\* reverse_zcta_crosswalk without the test for a ZIP Code that is no ZCTA
reverse_zcta_crosswalk_no_zip_test(fs, zcta, year, use_zcta_if_error) ==
    LET zcta_reverse_xwalk == ZipCodes(fs, year).reverse_crosswalk
        zcta_formatted == zip_code_formatter(zcta)
    IN  IF DictHas(zcta_reverse_xwalk, zcta_formatted)
        THEN [ret |-> DictGet(zcta_reverse_xwalk, zcta_formatted), built |-> 1]
        ELSE [ret |-> IF use_zcta_if_error THEN PyList(<<zcta_formatted>>) ELSE PyList(<< >>),
              built |-> 2]

\* reverse_zcta_crosswalk keeping the instance it built first
reverse_zcta_crosswalk_one_instance(fs, zcta, year, use_zcta_if_error) ==
    LET zipcodes == ZipCodes(fs, year)
        zcta_formatted == zip_code_formatter(zcta)
    IN  [ret |-> IF DictHas(zipcodes.reverse_crosswalk, zcta_formatted)
                 THEN DictGet(zipcodes.reverse_crosswalk, zcta_formatted)
                 ELSE IF DictHas(zipcodes.crosswalk, zcta_formatted)
                           \/ use_zcta_if_error
                      THEN PyList(<<zcta_formatted>>)
                      ELSE PyList(<< >>),
         built |-> 1]

reverse_zcta_crosswalk(fs, zcta, year, use_zcta_if_error) ==
    LET zcta_reverse_xwalk == ZipCodes(fs, year).reverse_crosswalk
        zcta_formatted == zip_code_formatter(zcta)
    IN  IF DictHas(zcta_reverse_xwalk, zcta_formatted)
        THEN [ret |-> DictGet(zcta_reverse_xwalk, zcta_formatted), built |-> 1]
        ELSE [ret |-> IF DictHas(ZipCodes(fs, year).crosswalk, zcta_formatted)
                      THEN PyList(<<zcta_formatted>>)
                      ELSE IF use_zcta_if_error THEN PyList(<<zcta_formatted>>)
                      ELSE PyList(<< >>),
              built |-> 2]

\* lat_lon_centroid returning None when there is no centroid
lat_lon_centroid_none_on_miss(fs, postal_code, year, use_postalcode_if_error) ==
    LET inner == zip_code_crosswalk(fs, postal_code, year, use_postalcode_if_error)
        zcta == zip_code_formatter(inner.ret)
        latlon_crosswalk == ZipCodes(fs, year).latlon_centroids
    IN  [ret |-> IF DictHas(latlon_crosswalk, zcta) THEN DictGet(latlon_crosswalk, zcta)
                 ELSE None,
         built |-> inner.built + 1]

lat_lon_centroid(fs, postal_code, year, use_postalcode_if_error) ==
    LET inner == zip_code_crosswalk(fs, postal_code, year, use_postalcode_if_error)
        zcta == zip_code_formatter(inner.ret)
        latlon_crosswalk == ZipCodes(fs, year).latlon_centroids
    IN  [ret |-> IF DictHas(latlon_crosswalk, zcta) THEN DictGet(latlon_crosswalk, zcta)
                 ELSE PyList(<<None, None>>),
         built |-> inner.built + 1]

----------------------------------------------------------------------------
(* The data on disk and the inputs the model draws from *)

Z00501 == <<"0", "0", "5", "0", "1">>
Z11742 == <<"1", "1", "7", "4", "2">>
Z11743 == <<"1", "1", "7", "4", "3">>
Z01174 == <<"0", "1", "1", "7", "4">>
Z99999 == <<"9", "9", "9", "9", "9">>

Years == {"2010", "2020"}

\* keys and values of the crosswalk files; the last value lost its leading zero
ZipKeys == {Z00501, Z11742}
ZctaValues == {Z11742, Z11743, <<"1", "1", "7", "4">>}

CrosswalkItems == {[k |-> PyStr(z), val |-> PyStr(a)] : z \in ZipKeys, a \in ZctaValues}

\* every crosswalk file over those keys and values, in either key order
CrosswalkTables ==
    {<< >>} \cup {<<a>> : a \in CrosswalkItems}
            \cup {<<p[1], p[2]>> : p \in {q \in CrosswalkItems \X CrosswalkItems : q[1].k # q[2].k}}

Centroid(zcta, lat, lon) == [k |-> PyStr(zcta), val |-> PyList(<<PyInt(lat), PyInt(lon)>>)]

CentroidTables ==
    { << >>,
      <<Centroid(Z11742, 40, -73)>>,
      <<Centroid(Z01174, 41, -72), [k |-> PyStr(Z11743), val |-> PyList(<<None, None>>)]>>,
      <<Centroid(Z11742, 40, -73), Centroid(Z11743, 41, -72), Centroid(Z00501, 42, -71)>> }

\* the files of the Census year the model does not vary
ReferenceFiles ==
    [crosswalk |-> <<[k |-> PyStr(Z00501), val |-> PyStr(Z00501)],
                     [k |-> PyStr(Z11743), val |-> PyStr(Z00501)]>>,
     latlon |-> <<Centroid(Z00501, 10, -10)>>]

\* json directories: one Census year's files vary over all tables
Directories ==
    {[y \in Years |-> IF y = varied THEN [crosswalk |-> cw, latlon |-> ll] ELSE ReferenceFiles] :
        varied \in Years, cw \in CrosswalkTables, ll \in CentroidTables}

\* all strings over alphabet of length at most n
Strings(alphabet, n) == UNION {[1..k -> alphabet] : k \in 0..n}

FormatterAlphabet == {"0", "7", "-", " "}

Upper(s) ==
    [i \in 1..Len(s) |->
        IF \E j \in 1..26 : LowerChars[j] = s[i]
        THEN UpperChars[CHOOSE j \in 1..26 : LowerChars[j] = s[i]]
        ELSE s[i]]

Capitalize(s) == IF s = << >> THEN s ELSE Upper(<<Head(s)>>) \o Tail(s)

\* the words the formatter treats as missing values, in three spellings
MarkerWords ==
    LET w0 == null_list \cup {<<"N", "a", "N">>}
    IN  w0 \cup {Upper(w) : w \in w0} \cup {Capitalize(w) : w \in w0}

\* a marker word with at most one character before, inside or after it
DecoratedMarkers ==
    {pre \o w \o post : pre \in Strings(FormatterAlphabet, 1), w \in MarkerWords,
                        post \in Strings(FormatterAlphabet, 1)}
    \cup UNION {{SubSeq(w, 1, i) \o <<c>> \o SubSeq(w, i + 1, Len(w)) :
                    i \in 1..Len(w), c \in FormatterAlphabet} : w \in MarkerWords}

IntInputs == {0, 5, 12, 501, 544, 1174, 11742, 117420001, -501, -12}

FormatterInputs ==
    {PyStr(s) : s \in Strings(FormatterAlphabet, MaxLen) \cup DecoratedMarkers}
    \cup {PyInt(n) : n \in IntInputs} \cup {None, PyNaN}

YearTexts ==
    { << >>, <<"a", "b", "c">>, <<"2", "0", "a", "5">>, <<" ", "2", "0", "1", "5">>,
      <<"2", "0", "1", "5", " ">>, <<"-", "2", "0", "1", "5">>, <<"+", "2", "0", "2", "1">>,
      <<"2", "0", "1", "5", ".", "5">>, <<"2", "0", " ", "1", "5">>, <<"-">> }

YearInputs ==
    {PyInt(n) : n \in ((2015 - YearSpan)..(2015 + YearSpan)) \cup {0, -1, 1990, 2100}}
    \cup {PyStr(NatDigits(n)) : n \in (2015 - YearSpan)..(2015 + YearSpan)}
    \cup {PyStr(s) : s \in YearTexts} \cup {None, PyNaN}

LookupInputs ==
    { PyStr(Z00501), PyInt(501), PyStr(Z11742), PyStr(Z11742 \o <<"-", "0", "0", "0", "1">>),
      PyStr(Z11743), PyInt(1174), PyStr(Z99999), PyStr(<<"n", "u", "l", "l">>), None, PyNaN }

LookupYears == {PyInt(2010), PyInt(2015), PyInt(2020), PyStr(<<"a", "b", "c">>)}

----------------------------------------------------------------------------
(* The state machine *)

NoReads == [y \in Years |-> 0]

\* n instances ZipCodes(year) were built: each opened both files of its year
Opened(reads, year, n) == [reads EXCEPT ![CensusYear(year)] = @ + n]

\* a call not yet made
Input(arg, year) ==
    [op |-> "input", arg |-> arg, year |-> year, flag |-> FALSE, again |-> FALSE, prev |-> None]

\* a process that makes one lookup, over any json directory
Init ==
    /\ files \in Directories
    /\ crosswalkReads = NoReads
    /\ latlonReads = NoReads
    /\ call = Input(None, None)
    /\ result = None
    /\ calls = 0
    /\ budget = 1

Lookup(op, arg, year, flag, out) ==
    /\ calls < budget
    /\ call' = [op |-> op, arg |-> arg, year |-> year, flag |-> flag, again |-> FALSE,
                prev |-> None]
    /\ result' = out.ret
    /\ crosswalkReads' = Opened(crosswalkReads, year, out.built)
    /\ latlonReads' = Opened(latlonReads, year, out.built)
    /\ calls' = calls + 1
    /\ UNCHANGED <<files, budget>>

ZipCodeCrosswalk ==
    \E arg \in LookupInputs, year \in LookupYears, flag \in BOOLEAN :
        Lookup("zip_code_crosswalk", arg, year, flag, zip_code_crosswalk(files, arg, year, flag))

ReverseZctaCrosswalk ==
    \E arg \in LookupInputs, year \in LookupYears, flag \in BOOLEAN :
        Lookup("reverse_zcta_crosswalk", arg, year, flag,
               reverse_zcta_crosswalk(files, arg, year, flag))

LatLonCentroid ==
    \E arg \in LookupInputs, year \in LookupYears, flag \in BOOLEAN :
        Lookup("lat_lon_centroid", arg, year, flag, lat_lon_centroid(files, arg, year, flag))

Next == ZipCodeCrosswalk \/ ReverseZctaCrosswalk \/ LatLonCentroid

Spec == Init /\ [][Next]_vars

\* the directories of the processes that make several lookups
StoreDirectories ==
    { [y \in Years |-> ReferenceFiles],
      [y \in Years |-> IF y = "2020"
                       THEN [crosswalk |-> <<[k |-> PyStr(Z00501), val |-> PyStr(Z11742)],
                                             [k |-> PyStr(Z11742), val |-> PyStr(Z11742)]>>,
                             latlon |-> <<Centroid(Z11742, 40, -73)>>]
                       ELSE ReferenceFiles] }

\* a process that makes up to MaxCalls lookups
InitStore ==
    /\ files \in StoreDirectories
    /\ crosswalkReads = NoReads
    /\ latlonReads = NoReads
    /\ call = Input(None, None)
    /\ result = None
    /\ calls = 0
    /\ budget = MaxCalls

SpecStore == InitStore /\ [][Next]_vars

\* a raw value about to be formatted
InitFormatter ==
    /\ files = [y \in Years |-> ReferenceFiles]
    /\ crosswalkReads = NoReads
    /\ latlonReads = NoReads
    /\ \E raw \in FormatterInputs : call = Input(raw, None)
    /\ result = None
    /\ calls = 0
    /\ budget = 0

\* zip_code_formatter(raw)
Format ==
    /\ call.op = "input"
    /\ call' = [call EXCEPT !.op = "zip_code_formatter"]
    /\ result' = zip_code_formatter(call.arg)
    /\ calls' = calls + 1
    /\ UNCHANGED <<files, crosswalkReads, latlonReads, budget>>

\* zip_code_formatter applied to what it returned
FormatAgain ==
    /\ call.op = "zip_code_formatter"
    /\ ~call.again
    /\ call' = [call EXCEPT !.prev = result, !.again = TRUE]
    /\ result' = zip_code_formatter(result)
    /\ calls' = calls + 1
    /\ UNCHANGED <<files, crosswalkReads, latlonReads, budget>>

NextFormatter == Format \/ FormatAgain

SpecFormatter == InitFormatter /\ [][NextFormatter]_vars

\* a year about to be given to ZipCodes
InitYear ==
    /\ files = [y \in Years |-> ReferenceFiles]
    /\ crosswalkReads = NoReads
    /\ latlonReads = NoReads
    /\ \E year \in YearInputs : call = Input(None, year)
    /\ result = None
    /\ calls = 0
    /\ budget = 0

\* ZipCodes(year)
NewZipCodes ==
    /\ call.op = "input"
    /\ call' = [call EXCEPT !.op = "ZipCodes"]
    /\ result' = ZipCodes(files, call.year)
    /\ crosswalkReads' = Opened(crosswalkReads, call.year, 1)
    /\ latlonReads' = Opened(latlonReads, call.year, 1)
    /\ calls' = calls + 1
    /\ UNCHANGED <<files, budget>>

NextYear == NewZipCodes

SpecYear == InitYear /\ [][NextYear]_vars

----------------------------------------------------------------------------
(* Properties *)

\* the crosswalk and centroid files of the Census year the last call asked for
CallCrosswalk == files[CensusYear(call.year)].crosswalk
CallCentroids == files[CensusYear(call.year)].latlon

\* the normalized argument of the last call
CallCode == zip_code_formatter(call.arg)

Keys(d) == {d[i].k : i \in 1..Len(d)}
Values(d) == {d[i].val : i \in 1..Len(d)}

\* what the table holds under key: the value of the item carrying it
Mapped(d, key, value) == \E i \in 1..Len(d) : d[i].k = key /\ d[i].val = value

\* a canonical Code: exactly five characters, all digits
IsCanonical(x) == x.t = "str" /\ Len(x.v) = 5 /\ \A i \in 1..Len(x.v) : IsDigit(x.v[i])

\* the items a Python value yields when it is read as a sequence
ItemsOf(x) ==
    IF x.t = "list" THEN {x.v[i] : i \in 1..Len(x.v)}
    ELSE IF x.t = "str" THEN {PyStr(<<x.v[i]>>) : i \in 1..Len(x.v)}
    ELSE {}

\* C1: zip_code_crosswalk returns the ZCTA the year's crosswalk maps the
\* normalized input to when it is a key; otherwise the normalized input
\* when use_postalcode_if_error is true, and None when it is false.
C1_ResolveZcta ==
    call.op = "zip_code_crosswalk" =>
        IF CallCode \in Keys(CallCrosswalk) THEN Mapped(CallCrosswalk, CallCode, result)
        ELSE IF call.flag THEN result = CallCode
        ELSE result = None

\* C1 witness: the integer 501, normalized to 00501 and mapped to 11742
C1_Witness ==
    /\ call.op = "zip_code_crosswalk"
    /\ call.arg = PyInt(501)
    /\ call.year = PyInt(2015)
    /\ ~call.flag
    /\ result = PyStr(Z11742)

\* C2: in a crosswalk of canonical codes, every ZIP Code mapped to the
\* ZCTA asked for is one of the items reverse_zcta_crosswalk returns.
C2_ReverseConsistency ==
    (/\ call.op = "reverse_zcta_crosswalk"
     /\ \A x \in Keys(CallCrosswalk) \cup Values(CallCrosswalk) : IsCanonical(x))
        => \A zip \in Keys(CallCrosswalk) :
              Mapped(CallCrosswalk, zip, CallCode) => zip \in ItemsOf(result)

\* C6: reverse_zcta_crosswalk returns a list, whatever the crosswalk.
C6_AlwaysList == call.op = "reverse_zcta_crosswalk" => result.t = "list"

\* C8: lat_lon_centroid returns a list of two items: the pair stored under
\* the re-normalized ZCTA of the input when the year's centroid file has
\* it, and [None, None] otherwise, for either use_postalcode_if_error.
C8_Centroid ==
    call.op = "lat_lon_centroid" =>
        LET zctas == IF CallCode \in Keys(CallCrosswalk)
                     THEN {z \in Values(CallCrosswalk) : Mapped(CallCrosswalk, CallCode, z)}
                     ELSE IF call.flag THEN {CallCode} ELSE {None}
        IN  /\ result.t = "list"
            /\ Len(result.v) = 2
            /\ \A z \in zctas :
                  IF zip_code_formatter(z) \in Keys(CallCentroids)
                  THEN Mapped(CallCentroids, zip_code_formatter(z), result)
                  ELSE result = PyList(<<None, None>>)

\* C8 witness: 501 is mapped to "1174", re-normalized to 01174, which has a centroid
C8_Witness ==
    /\ call.op = "lat_lon_centroid"
    /\ call.arg = PyInt(501)
    /\ Mapped(CallCrosswalk, PyStr(Z00501), PyStr(<<"1", "1", "7", "4">>))
    /\ result = PyList(<<PyInt(41), PyInt(-72)>>)

\* C9: when the normalized input is no key of the reverse crosswalk (no
\* value of the crosswalk), reverse_zcta_crosswalk returns the one-item
\* list of it if it is a key of the crosswalk, else the one-item list of it
\* if use_zcta_if_error is true, else the empty list; and the empty list is
\* returned in that last case only.
C9_FallbackOrder ==
    call.op = "reverse_zcta_crosswalk" =>
        /\ CallCode \notin Values(CallCrosswalk) =>
              IF CallCode \in Keys(CallCrosswalk) THEN result = PyList(<<CallCode>>)
              ELSE IF call.flag THEN result = PyList(<<CallCode>>)
              ELSE result = PyList(<< >>)
        /\ result = PyList(<< >>) <=>
              /\ CallCode \notin Values(CallCrosswalk)
              /\ CallCode \notin Keys(CallCrosswalk)
              /\ ~call.flag

\* C9 witness: a ZIP Code that is no ZCTA comes back alone in a list though
\* use_zcta_if_error is false
C9_Witness ==
    /\ call.op = "reverse_zcta_crosswalk"
    /\ ~call.flag
    /\ CallCode = PyStr(Z00501)
    /\ CallCode \in Keys(CallCrosswalk)
    /\ CallCode \notin Values(CallCrosswalk)
    /\ result = PyList(<<PyStr(Z00501)>>)

C7_YearResolver ==
    call.op = "ZipCodes" =>
        /\ call.year.t = "int" =>
              result.year = IF call.year.v[1] < 2020 THEN "2010" ELSE "2020"
        /\ (call.year.t = "str" /\ IntOk(call.year)) =>
              result.year = IF IntValue(call.year) < 2020 THEN "2010" ELSE "2020"
        /\ ~IntOk(call.year) => result.year = "2020"
        /\ result.crosswalk = files[result.year].crosswalk
        /\ result.latlon_centroids = files[result.year].latlon

\* C7 witness: 2015 works on the 2010 tables
C7_Witness ==
    /\ call.op = "ZipCodes"
    /\ call.year = PyInt(2015)
    /\ result.year = "2010"

\* C3: formatting what zip_code_formatter returned gives it back unchanged.
C3_Idempotent ==
    (call.op = "zip_code_formatter" /\ call.again) => result = call.prev

\* C3 witness: "7-0 7" became 00707, and 00707 stays 00707
C3_Witness ==
    /\ call.op = "zip_code_formatter"
    /\ call.again
    /\ call.arg = PyStr(<<"7", "-", "0", " ", "7">>)
    /\ call.prev = PyStr(<<"0", "0", "7", "0", "7">>)
    /\ result = call.prev

NullMarkers == { << >>, <<"0">>, <<"n", "a", "n">>, <<"n", "u", "l", "l">>, <<"n", "o", "n", "e">> }

\* C10: a raw text that is empty or, whatever its case, one of "0", "nan",
\* "null", "none" is formatted to None.
C10_NullMarkers ==
    (/\ call.op = "zip_code_formatter"
     /\ ~call.again
     /\ call.arg.t = "str"
     /\ Lower(call.arg.v) \in NullMarkers)
        => result = None

====
